---- MODULE Spec2Model ----
(***************************************************************************)
(* Constraint orchestration layer of src/gromacs/mdlib/constr.cpp:         *)
(* init_constraints, saveEdsamPointer, n_flexible_constraints and the      *)
(* constrain dispatcher with its thread-parallel SETTLE region, virial     *)
(* reduction, warning policy and diagnostic dumps.                         *)
(***************************************************************************)
EXTENDS Integers, Sequences, FiniteSets, TLC

\* ------------------------------------------------------------------ bounds
\* Largest number of SETTLE groups in the topology.
MaxSettle == 2
\* Largest configured OpenMP thread count for SETTLE.
MaxThreads == 2
\* Largest nominal time step ir->delta_t (in integer units).
MaxDt == 2
\* A new constrain call is only started while the warning counters sum to
\* at most this value (caps the otherwise unbounded counters).
CapCount == 1
\* Atoms of the molecule type whose constraint index is built.
MaxAtoms == 3
\* Largest number of constraints (F_CONSTR and F_CONSTRNC together) of that
\* molecule type.
MaxCons == 2
\* Largest number of SETTLE groups and of workers in the runs that check how
\* the groups are divided over the workers.
MaxGroups == 6
MaxWorkers == 4

\* ------------------------------------------------------- program constants
\* Spatial dimension of rvec / tensor.
DIM == 3
\* INT_MAX, the "unlimited" warning threshold.
INT_MAX == 2147483647
\* Default of constr->maxwarn.
DefaultMaxWarn == 999
\* Field width of the "%8d" conversion reading GMX_MAXCONSTRWARN.
ScanWidth == 8
\* NRAL(F_SETTLE): atoms of one SETTLE entry of an interaction list.
NRAL_SETTLE == 3

\* Constraint quantities (econq*).
econqCoord == "Coord"
econqVeloc == "Veloc"
econqDeriv == "Deriv"
econqDeriv_FlexCon == "Deriv_FlexCon"
econqForce == "Force"
econqForceDispl == "ForceDispl"
Econqs ==
    {econqCoord, econqVeloc, econqDeriv, econqDeriv_FlexCon, econqForce,
     econqForceDispl}

\* Constraint algorithms (econt*).
econtLINCS == "LINCS"
econtSHAKE == "SHAKE"

\* Periodic boundary conditions (epbc*).
epbcNONE == "none"
epbcXYZ == "xyz"

\* Integrators: leap-frog MD, velocity Verlet, steepest descent.
EIs == {"md", "vv", "steep"}
EI_DYNAMICS(eI) == eI \in {"md", "vv"}
EI_ENERGY_MINIMIZATION(eI) == eI = "steep"
EI_VV(eI) == eI = "vv"

\* ------------------------------------------------------------- arithmetic
Abs(n) == IF n < 0 THEN -n ELSE n
Sign(n) == IF n < 0 THEN -1 ELSE IF n = 0 THEN 0 ELSE 1
Min(a, b) == IF a < b THEN a ELSE b

RECURSIVE Gcd(_, _)
Gcd(a, b) == IF b = 0 THEN a ELSE Gcd(b, a % b)

\* A value of type real: <<n, d>> with d > 0 is the number n/d in lowest
\* terms; <<1, 0>>, <<-1, 0>> and <<0, 0>> are +inf, -inf and NaN.
RNorm(n, d) ==
    IF d = 0 THEN <<Sign(n), 0>>
    ELSE LET g == Gcd(Abs(n), Abs(d))
         IN  <<(Sign(d) * n) \div g, Abs(d) \div g>>
RInt(n) == <<n, 1>>
RZero == <<0, 1>>
RInf == <<1, 0>>
RNaN == <<0, 0>>
RIsFinite(r) == r[2] # 0
RMul(a, b) == RNorm(a[1] * b[1], a[2] * b[2])
RDiv(a, b) ==
    IF ~RIsFinite(a) \/ ~RIsFinite(b) THEN RNaN
    ELSE RNorm(a[1] * b[2], a[2] * b[1])
RAdd(a, b) ==
    IF RIsFinite(a) /\ RIsFinite(b)
    THEN RNorm(a[1] * b[2] + b[1] * a[2], a[2] * b[2])
    ELSE IF a = RNaN \/ b = RNaN \/ (~RIsFinite(a) /\ ~RIsFinite(b) /\ a # b)
    THEN RNaN
    ELSE IF RIsFinite(a) THEN b ELSE a

\* ----------------------------------------------------------------- tensors
Dims == 1..DIM
\* clear_mat
ClearMat == [i \in Dims |-> [j \in Dims |-> 0]]
\* m_add
MAdd(a, b) == [i \in Dims |-> [j \in Dims |-> a[i][j] + b[i][j]]]
\* The shape shared by every virial contribution of the model; its entries
\* take positive, zero and negative values.
UnitVirial == [i \in Dims |-> [j \in Dims |-> DIM * (i - 1) + j - 5]]
MScale(k, a) == [i \in Dims |-> [j \in Dims |-> k * a[i][j]]]

\* ------------------------------------------------- environment parsing
Digits == <<"0", "1", "2", "3", "4", "5", "6", "7", "8", "9">>
IsDigit(c) == \E k \in 1..10 : Digits[k] = c
DigitVal(c) == (CHOOSE k \in 1..10 : Digits[k] = c) - 1

RECURSIVE NumLeadingDigits(_)
NumLeadingDigits(s) ==
    IF s = <<>> \/ ~IsDigit(Head(s)) THEN 0 ELSE 1 + NumLeadingDigits(Tail(s))

RECURSIVE DecVal(_)
DecVal(s) ==
    IF s = <<>> THEN 0
    ELSE 10 * DecVal(SubSeq(s, 1, Len(s) - 1)) + DigitVal(s[Len(s)])

\* sscanf(str, "%<width>d", &out): at most `width` characters are consumed,
\* an optional sign followed by decimal digits; without a digit nothing is
\* stored and `out` keeps the value `old`.
ScanInt(str, width, old) ==
    LET t == SubSeq(str, 1, Min(Len(str), width))
        hasSign == t # <<>> /\ Head(t) \in {"-", "+"}
        body == IF hasSign THEN Tail(t) ELSE t
        nd == NumLeadingDigits(body)
        mag == DecVal(SubSeq(body, 1, nd))
    IN  IF nd = 0 THEN old
        ELSE IF hasSign /\ Head(t) = "-" THEN -mag ELSE mag

\* The effective constr->maxwarn for a value of GMX_MAXCONSTRWARN.
MaxWarnBrokenNegative(e) ==
    IF ~e.set THEN DefaultMaxWarn ELSE ScanInt(e.val, ScanWidth, 0)
MaxWarnFromEnv(e) ==
    IF ~e.set THEN DefaultMaxWarn
    ELSE LET scanned == ScanInt(e.val, ScanWidth, 0)
         IN  IF scanned < 0 THEN INT_MAX ELSE scanned

\* ---------------------------------------------------------------- state
VARIABLES
    mtop,      \* global topology: constraint and SETTLE counts
    ir,        \* input record: algorithm, integrator, time step, pull, ...
    cr,        \* communication record: domain decomposition
    env,       \* process environment
    opts,      \* runner settings: log file, SETTLE thread count, ED request
    constr,    \* the constraint manager (struct gmx_constr) or nullptr
    frame,     \* parameters, locals and observable effects of constrain()
    fatal,     \* "none", or why the process was terminated
    top,       \* what set_constraints has set up for the local topology
    moltype    \* a molecule type and the atom indices built for it

vars == <<mtop, ir, cr, env, opts, constr, frame, fatal, top, moltype>>

\* Before set_constraints has run, and when no index is being built.
NoLocalTop == [lincs |-> FALSE, shake |-> "none", settle |-> FALSE, ed |-> FALSE]
NoMolType == [job |-> "none"]

bPull(i) == i.pull # "off"
pull_have_constraint(i) == i.pull = "constraint"
DOMAINDECOMP(c) == c.dd

\* The manager before init_constraints has run, and the nullptr manager.
NoSlots == [th \in {} |-> ClearMat]
NoFlags == [th \in {} |-> FALSE]
BlankConstr(kind) ==
    [kind |-> kind, ncon_tot |-> -1, nflexcon |-> -1,
     lincsd |-> FALSE, shaked |-> FALSE, settled |-> FALSE,
     maxwarn |-> -1, warncount_lincs |-> 0, warncount_settle |-> 0,
     ed |-> FALSE, vir_r_m_dr_th |-> NoSlots,
     bSettleErrorHasOccurred |-> NoFlags]
UninitConstr == BlankConstr("uninit")
NullConstr == BlankConstr("nullptr")

n_flexible_constraintsDeref(c) == c.nflexcon
n_flexible_constraints(c) == IF c.kind = "active" THEN c.nflexcon ELSE 0

\* The frame of constrain() when no call is in progress.
NoVir == [i \in Dims |-> [j \in Dims |-> RZero]]
IdleFrame ==
    [pc |-> "idle", econq |-> econqCoord, wantVir |-> FALSE,
     nsettle |-> 0, nth |-> 1, invdt |-> RZero,
     bOK |-> TRUE, bDump |-> FALSE,
     vir_r_m_dr |-> ClearMat, bSettleErrorHasOccurred |-> FALSE,
     th_pc |-> <<>>, vir_fac |-> RZero,
     vir |-> NoVir, virWritten |-> FALSE,
     lincs_ret |-> "not_run", shake_ret |-> "not_run", csettle_ret |-> <<>>,
     ranges |-> <<>>, writes |-> <<>>,
     bMolPBC |-> FALSE, pbc_null |-> "nullptr", delta_step |-> 0,
     handed |-> [lincs |-> "not_called", shake |-> "not_called",
                 settle |-> "not_called"],
     trace |-> <<>>, log |-> <<>>, dumps |-> <<>>]

\* ------------------------------------------------------ init_constraints
\* nconstraints: the F_CONSTR and F_CONSTRNC interactions of the topology.
NConstraints(m) == m.n_constr + m.n_constrnc

\* The test deciding that no manager is needed.
NoManagerNeededIgnoringED(m, i, doEssentialDynamics) ==
    /\ NConstraints(m) + m.nsettles = 0
    /\ ~(bPull(i) /\ pull_have_constraint(i))
NoManagerNeeded(m, i, doEssentialDynamics) ==
    /\ NConstraints(m) + m.nsettles = 0
    /\ ~(bPull(i) /\ pull_have_constraint(i))
    /\ ~doEssentialDynamics

\* constr->nflexcon after the topology loop and the flexible-constraint
\* report: the count is reset when a log file is open and the step size
\* for flexible constraining is zero.
InitNFlexCon(m, i, fplog) ==
    IF NConstraints(m) > 0 /\ m.nflexcon > 0 /\ fplog /\ i.fc_stepsize = 0
    THEN 0
    ELSE IF NConstraints(m) > 0 THEN m.nflexcon ELSE 0

\* The gmx_fatal reached by init_constraints, "none" when it returns.
InitFatalWithoutMTTK(m, i, c, fplog) ==
    IF /\ NConstraints(m) > 0
       /\ i.eConstrAlg = econtSHAKE
       /\ DOMAINDECOMP(c) /\ c.bInterCGcons
    THEN "shake_dd_intercg"
    ELSE IF /\ NConstraints(m) > 0
            /\ i.eConstrAlg = econtSHAKE
            /\ InitNFlexCon(m, i, fplog) # 0
    THEN "shake_flexible"
    ELSE "none"
InitFatal(m, i, c, fplog) ==
    IF /\ NConstraints(m) > 0
       /\ i.eConstrAlg = econtSHAKE
       /\ DOMAINDECOMP(c) /\ c.bInterCGcons
    THEN "shake_dd_intercg"
    ELSE IF /\ NConstraints(m) > 0
            /\ i.eConstrAlg = econtSHAKE
            /\ InitNFlexCon(m, i, fplog) # 0
    THEN "shake_flexible"
    ELSE IF NConstraints(m) + m.nsettles > 0 /\ i.epc = "MTTK"
    THEN "mttk"
    ELSE "none"

\* Number of thread-local slots allocated for SETTLE.
NumSlots(m, nthreads) == IF m.nsettles > 0 /\ nthreads > 1 THEN nthreads ELSE 0

NewConstrBothSolvers(m, i, e, fplog, nthreads) ==
    [kind |-> "active",
     ncon_tot |-> NConstraints(m),
     nflexcon |-> InitNFlexCon(m, i, fplog),
     lincsd |-> (NConstraints(m) > 0),
     shaked |-> (NConstraints(m) > 0),
     settled |-> (m.nsettles > 0),
     maxwarn |-> MaxWarnFromEnv(e.GMX_MAXCONSTRWARN),
     warncount_lincs |-> 0,
     warncount_settle |-> 0,
     ed |-> FALSE,
     vir_r_m_dr_th |-> [th \in 0..(NumSlots(m, nthreads) - 1) |-> ClearMat],
     bSettleErrorHasOccurred |->
         [th \in 0..(NumSlots(m, nthreads) - 1) |-> FALSE]]
NewConstr(m, i, e, fplog, nthreads) ==
    [kind |-> "active",
     ncon_tot |-> NConstraints(m),
     nflexcon |-> InitNFlexCon(m, i, fplog),
     lincsd |-> (NConstraints(m) > 0 /\ i.eConstrAlg = econtLINCS),
     shaked |-> (NConstraints(m) > 0 /\ i.eConstrAlg = econtSHAKE),
     settled |-> (m.nsettles > 0),
     maxwarn |-> MaxWarnFromEnv(e.GMX_MAXCONSTRWARN),
     warncount_lincs |-> 0,
     warncount_settle |-> 0,
     ed |-> FALSE,
     vir_r_m_dr_th |-> [th \in 0..(NumSlots(m, nthreads) - 1) |-> ClearMat],
     bSettleErrorHasOccurred |->
         [th \in 0..(NumSlots(m, nthreads) - 1) |-> FALSE]]

init_constraints ==
    /\ constr.kind = "uninit"
    /\ fatal = "none"
    /\ IF NoManagerNeeded(mtop, ir, opts.doEssentialDynamics)
       THEN /\ constr' = NullConstr
            /\ fatal' = fatal
       ELSE IF InitFatal(mtop, ir, cr, opts.fplog) # "none"
       THEN /\ fatal' = InitFatal(mtop, ir, cr, opts.fplog)
            /\ constr' = constr
       ELSE /\ constr' = NewConstr(mtop, ir, env, opts.fplog, opts.nthreads)
            /\ fatal' = fatal
    /\ UNCHANGED <<top, moltype, mtop, ir, cr, env, opts, frame>>

\* saveEdsamPointer: the runner attaches the essential-dynamics data it
\* created because essential dynamics was requested.
saveEdsamPointer ==
    /\ constr.kind = "active"
    /\ fatal = "none"
    /\ frame.pc \in {"idle", "done"}
    /\ opts.doEssentialDynamics
    /\ ~constr.ed
    /\ constr' = [constr EXCEPT !.ed = TRUE]
    /\ UNCHANGED <<top, moltype, mtop, ir, cr, env, opts, frame, fatal>>

\* set_constraints: hands the local topology to the solvers of the manager,
\* called by the runner between constrain calls (after every repartitioning
\* under domain decomposition).
set_constraints ==
    /\ constr.kind = "active"
    /\ fatal = "none"
    /\ frame.pc \in {"idle", "done"}
    /\ top' =
           [lincs |-> (constr.ncon_tot > 0 /\ ir.eConstrAlg = econtLINCS),
            shake |-> IF constr.ncon_tot > 0 /\ ir.eConstrAlg = econtSHAKE
                      THEN (IF cr.dd THEN "dd" ELSE "serial")
                      ELSE "none",
            settle |-> constr.settled,
            ed |-> (constr.ed /\ cr.dd)]
    /\ UNCHANGED <<moltype, mtop, ir, cr, env, opts, constr, frame, fatal>>

\* ------------------------------------------------------------ constrain
Append2(q, cond, e) == IF cond THEN Append(q, e) ELSE q

\* invdt: 0 when ir->delta_t is 0, else 1/(step_scaling*delta_t).
InvDtUnguarded(delta_t, step_scaling) ==
    RDiv(RInt(1), RMul(step_scaling, RInt(delta_t)))
InvDt(delta_t, step_scaling) ==
    IF delta_t = 0 THEN RZero
    ELSE RDiv(RInt(1), RMul(step_scaling, RInt(delta_t)))

\* Values of step_scaling: the normal uses of constrain pass 1; the call
\* for SD1 passes 0.5, constrains coordinates and requests no virial.
StepScalings(econq, wantVir) ==
    IF econq = econqCoord /\ ~wantVir THEN {<<1, 1>>, <<1, 2>>} ELSE {<<1, 1>>}

\* The caller-contract test at the top of constrain.
ForceDisplMisuseNever(econq, eI) == FALSE
ForceDisplMisuse(econq, eI) ==
    econq = econqForceDispl /\ ~EI_ENERGY_MINIMIZATION(eI)

\* nsettle = settle->nr/(1+NRAL(F_SETTLE)) of the local topology: all groups
\* without domain decomposition, any share of them with it.
LocalSettleCounts == IF cr.dd THEN 0..mtop.nsettles ELSE {mtop.nsettles}

\* The test deciding whether a periodic-boundary context is set up.
NeedsPbc(ePBC, dd, constraint_comm, bMolPBC) ==
    ePBC # epbcNONE /\ (dd \/ bMolPBC) /\ ~(dd /\ ~constraint_comm)

\* The test reads bMolPBC only after finding periodic boundaries enabled and
\* no domain decomposition; a value it does not read is kept as FALSE.
ReadsMolPBC(ePBC, dd) == ePBC # epbcNONE /\ ~dd

\* What set_pbc_dd can return: a pointer to the context it has filled in, or
\* no context.
set_pbc_dd == {"pbc", "nullptr"}

\* The values pbc_null can be given.
PbcNullAlways(ePBC, dd, constraint_comm, bMolPBC) == set_pbc_dd
PbcNull(ePBC, dd, constraint_comm, bMolPBC) ==
    IF NeedsPbc(ePBC, dd, constraint_comm, bMolPBC) THEN set_pbc_dd
    ELSE {"nullptr"}

ConstrainBegin(econq, wantVir, step_scaling, nsettle) ==
    /\ constr.kind = "active"
    /\ fatal = "none"
    /\ frame.pc \in {"idle", "done"}
    /\ constr.warncount_lincs + constr.warncount_settle <= CapCount
    /\ step_scaling \in StepScalings(econq, wantVir)
    /\ IF ForceDisplMisuse(econq, ir.eI)
       THEN /\ fatal' = "incons_forcedispl"
            /\ frame' = frame
       ELSE /\ fatal' = fatal
            /\ \E bMolPBC \in BOOLEAN :
               \E pbc_null \in PbcNull(ir.ePBC, cr.dd, cr.constraint_comm,
                                       bMolPBC) :
               frame' = [IdleFrame EXCEPT
                   !.pc = "move_x",
                   !.econq = econq,
                   !.wantVir = wantVir,
                   !.invdt = InvDt(ir.delta_t, step_scaling),
                   !.nsettle = nsettle,
                   !.nth = IF nsettle > 0 THEN opts.nthreads ELSE 1,
                   !.bMolPBC = bMolPBC /\ ReadsMolPBC(ir.ePBC, cr.dd),
                   !.pbc_null = pbc_null]
    /\ UNCHANGED <<top, moltype, mtop, ir, cr, env, opts, constr>>

\* dd_move_x_constraints (and clearing the non-local part of v), run by the
\* calling thread when cr->dd is set.
DDMoveX ==
    /\ fatal = "none"
    /\ frame.pc = "move_x"
    /\ frame' = [frame EXCEPT
           !.pc = "lincs",
           !.trace = Append2(@, cr.dd, "dd_move_x_constraints")]
    /\ UNCHANGED <<top, moltype, mtop, ir, cr, env, opts, constr, fatal>>

\* Virial contribution r_m_dr of the iterative solver of this run.
SolverVirial == MScale(8, UnitVirial)

\* A failed iterative solver flags a dump only under a finite threshold.
FlagsDumpAlways(ok, maxwarn) == ~ok
FlagsDump(ok, maxwarn) == ~ok /\ maxwarn < INT_MAX

\* constrain_lincs counts its failures in the counter it is handed and ends
\* the run when the count exceeds the threshold it is handed.
LincsWarnCount(count, ok) == count + (IF ok THEN 0 ELSE 1)
LincsTooManyWarnings(count, maxwarn) == count > maxwarn

\* constrain_lincs and the failure handling that follows it.
ConstrainLincs ==
    /\ fatal = "none"
    /\ frame.pc = "lincs"
    /\ IF ~constr.lincsd
       THEN /\ frame' = [frame EXCEPT !.pc = "shake"]
            /\ UNCHANGED <<constr, fatal>>
       ELSE \E ok \in BOOLEAN :
            LET count == LincsWarnCount(constr.warncount_lincs, ok)
            IN  /\ constr' = [constr EXCEPT !.warncount_lincs = count]
                /\ IF LincsTooManyWarnings(count, constr.maxwarn)
                   THEN /\ fatal' = "too_many_lincs"
                        /\ frame' = [frame EXCEPT
                               !.lincs_ret = "failed",
                               !.handed.lincs = frame.pbc_null,
                               !.trace = Append(@, "lincs")]
                   ELSE /\ fatal' = fatal
                        /\ frame' = [frame EXCEPT
                               !.pc = "shake",
                               !.bOK = ok,
                               !.lincs_ret = IF ok THEN "ok" ELSE "failed",
                               !.handed.lincs = frame.pbc_null,
                               !.vir_r_m_dr =
                                   IF frame.wantVir THEN MAdd(@, SolverVirial)
                                   ELSE @,
                               !.trace = Append(@, "lincs"),
                               !.log = Append2(@,
                                   FlagsDump(ok, constr.maxwarn) /\ opts.fplog,
                                   "fplog: Constraint error in algorithm LINCS"),
                               !.bDump = @ \/ FlagsDump(ok, constr.maxwarn)]
    /\ UNCHANGED <<top, moltype, mtop, ir, cr, env, opts>>

\* constrain_shake and the failure handling that follows it.
ConstrainShake ==
    /\ fatal = "none"
    /\ frame.pc = "shake"
    /\ IF ~constr.shaked
       THEN frame' = [frame EXCEPT !.pc = "settle"]
       ELSE \E ok \in BOOLEAN :
            frame' = [frame EXCEPT
                !.pc = "settle",
                !.bOK = ok,
                !.shake_ret = IF ok THEN "ok" ELSE "failed",
                !.handed.shake = "no_argument",
                !.vir_r_m_dr =
                    IF frame.wantVir THEN MAdd(@, SolverVirial) ELSE @,
                !.trace = Append(@, "shake"),
                !.log = Append2(@,
                    FlagsDump(ok, constr.maxwarn) /\ opts.fplog,
                    "fplog: Constraint error in algorithm SHAKE"),
                !.bDump = @ \/ FlagsDump(ok, constr.maxwarn)]
    /\ UNCHANGED <<top, moltype, mtop, ir, cr, env, opts, constr, fatal>>

\* ---------------------------------------------- the parallel SETTLE region
\* Worker th of nth handles the groups start_th .. end_th - 1.
StartTh(nsettle, th, nth) == (nsettle * th) \div nth
EndThInclusive(nsettle, th, nth) == (nsettle * (th + 1)) \div nth + 1
EndTh(nsettle, th, nth) == (nsettle * (th + 1)) \div nth

\* Virial contribution of SETTLE group g, and of the groups a .. b - 1.
GroupWeight(g) == 2 ^ g
RECURSIVE RangeWeight(_, _)
RangeWeight(a, b) == IF a >= b THEN 0 ELSE GroupWeight(a) + RangeWeight(a + 1, b)
RangeVirial(a, b) == MScale(RangeWeight(a, b), UnitVirial)

Workers == 0..(frame.nth - 1)

\* What a worker has done so far in the region: the range of groups it has
\* handed to settle_proj, and the locations it has written or handed to a
\* solver to write.
NoRange == [invoked |-> FALSE, start |-> 0, end |-> 0]
SlotVirial(th) == <<"vir_r_m_dr_th", th>>
SlotFlag(th) == <<"bSettleErrorHasOccurred_th", th>>
SharedVirial == <<"vir_r_m_dr", 0>>
SharedFlag == <<"bSettleErrorHasOccurred", 0>>

\* Entering the switch over econq when the local topology has SETTLEs.
SettleBegin ==
    /\ fatal = "none"
    /\ frame.pc = "settle"
    /\ IF frame.nsettle = 0
       THEN frame' = [frame EXCEPT !.pc = "virial"]
       ELSE IF frame.econq = econqDeriv_FlexCon
       THEN frame' = [frame EXCEPT !.pc = "reduce"]
       ELSE frame' = [frame EXCEPT
                !.pc = "region",
                !.th_pc = [th \in Workers |-> "start"],
                !.csettle_ret = [th \in Workers |-> "not_run"],
                !.ranges = [th \in Workers |-> NoRange],
                !.writes = [th \in Workers |-> {}],
                !.trace = Append(@, "region_begin")]
    /\ UNCHANGED <<top, moltype, mtop, ir, cr, env, opts, constr, fatal>>

\* Worker th > 0 clears its own virial slot.
WorkerClearSkipped(th) ==
    /\ fatal = "none"
    /\ frame.pc = "region"
    /\ th > 0
    /\ frame.th_pc[th] = "start"
    /\ th \in DOMAIN constr.vir_r_m_dr_th
    /\ frame' = [frame EXCEPT !.th_pc[th] = "cleared"]
    /\ UNCHANGED <<top, moltype, mtop, ir, cr, env, opts, constr, fatal>>
WorkerClear(th) ==
    /\ fatal = "none"
    /\ frame.pc = "region"
    /\ th > 0
    /\ frame.th_pc[th] = "start"
    /\ th \in DOMAIN constr.vir_r_m_dr_th
    /\ constr' = [constr EXCEPT !.vir_r_m_dr_th[th] = ClearMat]
    /\ frame' = [frame EXCEPT
           !.th_pc[th] = "cleared",
           !.writes[th] = @ \cup {SlotVirial(th)}]
    /\ UNCHANGED <<top, moltype, mtop, ir, cr, env, opts, fatal>>

\* The tensor and the flag worker th is handed: the call's own accumulator
\* for worker 0, slot th for every other worker.
UsesSharedAlways(th) == TRUE
UsesShared(th) == th = 0

\* csettle (econqCoord) or settle_proj (other quantities) run by worker th.
WorkerSolve(th) ==
    /\ fatal = "none"
    /\ frame.pc = "region"
    /\ frame.th_pc[th] = (IF th > 0 THEN "cleared" ELSE "start")
    /\ LET start_th == StartTh(frame.nsettle, th, frame.nth)
           end_th == EndTh(frame.nsettle, th, frame.nth)
           nonEmpty == start_th >= 0 /\ end_th - start_th > 0
           add == IF frame.wantVir /\ nonEmpty
                  THEN RangeVirial(start_th, end_th)
                  ELSE ClearMat
       IN  IF frame.econq = econqCoord
           THEN \E failed \in (IF nonEmpty THEN BOOLEAN ELSE {FALSE}) :
                /\ frame' = [frame EXCEPT
                       !.th_pc[th] = "done",
                       !.csettle_ret[th] = IF failed THEN "failed" ELSE "ok",
                       !.handed.settle = frame.pbc_null,
                       !.writes[th] = @ \cup
                           (IF UsesShared(th) THEN {SharedVirial, SharedFlag}
                            ELSE {SlotVirial(th), SlotFlag(th)}),
                       !.vir_r_m_dr = IF UsesShared(th) THEN MAdd(@, add) ELSE @,
                       !.bSettleErrorHasOccurred =
                           IF UsesShared(th) THEN failed ELSE @]
                /\ constr' =
                       IF UsesShared(th) THEN constr
                       ELSE [constr EXCEPT
                                !.vir_r_m_dr_th[th] = MAdd(@, add),
                                !.bSettleErrorHasOccurred[th] = failed]
           ELSE /\ frame' = [frame EXCEPT
                       !.th_pc[th] = "done",
                       !.handed.settle = IF nonEmpty THEN frame.pbc_null ELSE @,
                       !.ranges[th] =
                           IF nonEmpty
                           THEN [invoked |-> TRUE, start |-> start_th,
                                 end |-> end_th]
                           ELSE @,
                       !.writes[th] = @ \cup
                           (IF ~nonEmpty THEN {}
                            ELSE IF UsesShared(th) THEN {SharedVirial}
                            ELSE {SlotVirial(th)}),
                       !.vir_r_m_dr = IF UsesShared(th) THEN MAdd(@, add) ELSE @]
                /\ constr' =
                       IF UsesShared(th) THEN constr
                       ELSE [constr EXCEPT !.vir_r_m_dr_th[th] = MAdd(@, add)]
    /\ UNCHANGED <<top, moltype, mtop, ir, cr, env, opts, fatal>>

\* GMX_CATCH_ALL_AND_EXIT_WITH_FATAL_ERROR: an exception in a worker ends
\* the process.
WorkerThrow(th) ==
    /\ fatal = "none"
    /\ frame.pc = "region"
    /\ frame.th_pc[th] # "done"
    /\ fatal' = "worker_exception"
    /\ UNCHANGED <<top, moltype, mtop, ir, cr, env, opts, constr, frame>>

\* The implicit barrier closing the parallel region.
RegionEndNoBarrier ==
    /\ fatal = "none"
    /\ frame.pc = "region"
    /\ frame' = [frame EXCEPT
           !.pc = "reduce",
           !.trace = Append(@, "region_end")]
    /\ UNCHANGED <<top, moltype, mtop, ir, cr, env, opts, constr, fatal>>
RegionEnd ==
    /\ fatal = "none"
    /\ frame.pc = "region"
    /\ \A th \in Workers : frame.th_pc[th] = "done"
    /\ frame' = [frame EXCEPT
           !.pc = "reduce",
           !.trace = Append(@, "region_end")]
    /\ UNCHANGED <<top, moltype, mtop, ir, cr, env, opts, constr, fatal>>

\* for (th = 1; th < nth; th++) m_add(vir_r_m_dr, vir_r_m_dr_th[th], ...)
RECURSIVE ReduceVirialFrom(_, _, _, _)
ReduceVirialFrom(acc, slots, th, nth) ==
    IF th >= nth THEN acc
    ELSE ReduceVirialFrom(MAdd(acc, slots[th]), slots, th + 1, nth)
ReduceVirialSkipLast(acc, slots, nth) == ReduceVirialFrom(acc, slots, 1, nth - 1)
ReduceVirial(acc, slots, nth) == ReduceVirialFrom(acc, slots, 1, nth)

\* for (th = 1; th < nth; th++) bSettleErrorHasOccurred ||= flags[th]
ReduceErrorLocalOnly(local, flags, nth) == local
ReduceError(local, flags, nth) ==
    local \/ \E th \in 1..(nth - 1) : flags[th]

\* The test that ends the run on the SETTLE warning count.
TooManyWarningsAtLeast(count, maxwarn) == count >= maxwarn
TooManyWarnings(count, maxwarn) == count > maxwarn

\* The single-threaded reduction after the region, and the SETTLE warning
\* policy for econqCoord.
Reduce ==
    /\ fatal = "none"
    /\ frame.pc = "reduce"
    /\ frame.wantVir => (1..(frame.nth - 1)) \subseteq DOMAIN constr.vir_r_m_dr_th
    /\ LET reduced ==
               IF frame.wantVir
               THEN ReduceVirial(frame.vir_r_m_dr, constr.vir_r_m_dr_th,
                                 frame.nth)
               ELSE frame.vir_r_m_dr
           err ==
               /\ frame.econq = econqCoord
               /\ ReduceError(frame.bSettleErrorHasOccurred,
                              constr.bSettleErrorHasOccurred, frame.nth)
           count == constr.warncount_settle + (IF err THEN 1 ELSE 0)
           msg == "One or more water molecules can not be settled"
       IN  /\ constr' = [constr EXCEPT !.warncount_settle = count]
           /\ IF err /\ TooManyWarnings(count, constr.maxwarn)
              THEN /\ fatal' = "too_many_settle"
                   /\ frame' = [frame EXCEPT
                          !.vir_r_m_dr = reduced,
                          !.bSettleErrorHasOccurred = err,
                          !.trace = Append(@, "reduce"),
                          !.log = Append(Append2(@, opts.fplog, "fplog: " \o msg),
                                         "stderr: " \o msg)]
              ELSE /\ fatal' = fatal
                   /\ frame' = [frame EXCEPT
                          !.pc = "virial",
                          !.vir_r_m_dr = reduced,
                          !.bSettleErrorHasOccurred =
                              IF frame.econq = econqCoord THEN err ELSE @,
                          !.trace = Append(@, "reduce"),
                          !.log = IF err
                                  THEN Append(Append2(@, opts.fplog,
                                                      "fplog: " \o msg),
                                              "stderr: " \o msg)
                                  ELSE @,
                          !.bDump = @ \/ err,
                          !.bOK = IF err THEN FALSE ELSE @]
    /\ UNCHANGED <<top, moltype, mtop, ir, cr, env, opts>>

\* ------------------------------------------------------- virial scaling
\* Quantities for which a virial can be requested.
VirialQuantities == {econqCoord, econqVeloc, econqForce, econqForceDispl}

\* vir_fac before the velocity-Verlet doubling.
VirFacLinearInDt(econq, delta_t) ==
    IF econq \in {econqCoord, econqVeloc}
    THEN RDiv(<<1, 2>>, RInt(delta_t))
    ELSE <<1, 2>>
VirFac(econq, delta_t) ==
    IF econq = econqCoord THEN RDiv(<<1, 2>>, RInt(delta_t * delta_t))
    ELSE IF econq = econqVeloc THEN RDiv(<<1, 2>>, RInt(delta_t))
    ELSE <<1, 2>>

\* if (EI_VV(ir->eI)) vir_fac *= 2
VVScaleNever(fac, eI) == fac
VVScale(fac, eI) == IF EI_VV(eI) THEN RMul(fac, RInt(2)) ELSE fac

\* The switch computes a quotient with divisor zero.
DividesByZero(econq, delta_t) ==
    econq \in {econqCoord, econqVeloc} /\ delta_t = 0

\* Scaling of the reduced tensor into the caller's virial. A division by
\* zero either yields an infinity (IEEE arithmetic) or traps (SIGFPE with
\* floating-point exceptions enabled).
ScaleVirial ==
    /\ fatal = "none"
    /\ frame.pc = "virial"
    /\ IF ~frame.wantVir
       THEN /\ frame' = [frame EXCEPT !.pc = "dump"]
            /\ fatal' = fatal
       ELSE IF frame.econq \notin VirialQuantities
       THEN /\ fatal' = "incons_virial"
            /\ frame' = frame
       ELSE \/ /\ DividesByZero(frame.econq, ir.delta_t)
               /\ fatal' = "sigfpe"
               /\ frame' = frame
            \/ LET fac == VVScale(VirFac(frame.econq, ir.delta_t), ir.eI)
               IN  /\ fatal' = fatal
                   /\ frame' = [frame EXCEPT
                          !.pc = "dump",
                          !.vir_fac = fac,
                          !.vir = [i \in Dims |-> [j \in Dims |->
                                      RMul(fac, RInt(frame.vir_r_m_dr[i][j]))]],
                          !.virWritten = TRUE,
                          !.trace = Append(@, "scale_virial")]
    /\ UNCHANGED <<top, moltype, mtop, ir, cr, env, opts, constr>>

\* ------------------------------------------------------------ dump_confs
\* The files dump_confs writes: none when GMX_SUPPRESS_DUMP is set.
DumpFilesOnlyAfter(suppress) == IF suppress THEN <<>> ELSE <<"step_c.pdb">>
DumpFiles(suppress) == IF suppress THEN <<>> ELSE <<"step_b.pdb", "step_c.pdb">>

Dump ==
    /\ fatal = "none"
    /\ frame.pc = "dump"
    /\ frame' = [frame EXCEPT
           !.pc = "after",
           !.dumps = IF frame.bDump THEN DumpFiles(env.GMX_SUPPRESS_DUMP) ELSE @,
           !.trace = Append2(@, frame.bDump, "dump_confs")]
    /\ UNCHANGED <<top, moltype, mtop, ir, cr, env, opts, constr, fatal>>

\* -------------------------------------------- pull and essential dynamics
\* What the pull code may add to the virial it is handed (in units of
\* UnitVirial).
PullVirialWeights == {0, 1}

\* Values of the parameter delta_step.
DeltaSteps == {-1, 0, 1}

\* The tests guarding pull_constraint and do_edsam.
DoPull(econq, i) == econq = econqCoord /\ bPull(i) /\ pull_have_constraint(i)
DoEdsamAnyStep(econq, ed, delta_step) == econq = econqCoord /\ ed
DoEdsam(econq, ed, delta_step) == econq = econqCoord /\ ed /\ delta_step > 0

\* The test before do_edsam reads delta_step only for econqCoord with
\* essential-dynamics data attached; a value it does not read is kept as 0.
ReadsDeltaStep(econq, ed) == econq = econqCoord /\ ed

\* The corrections applied for econqCoord only, then the return of bOK.
PullAndEd(delta_step, pullWeight) ==
    /\ fatal = "none"
    /\ frame.pc = "after"
    /\ LET doPull == DoPull(frame.econq, ir)
           doEd == DoEdsam(frame.econq, constr.ed, delta_step)
       IN  /\ (~(doPull /\ frame.wantVir)) => pullWeight = 0
           /\ frame' = [frame EXCEPT
                  !.pc = "done",
                  !.delta_step =
                      IF ReadsDeltaStep(frame.econq, constr.ed) THEN delta_step
                      ELSE 0,
                  !.vir = [i \in Dims |-> [j \in Dims |->
                              RAdd(@[i][j], RInt(pullWeight * UnitVirial[i][j]))]],
                  !.trace = Append2(Append2(@, doPull, "pull_constraint"),
                                    doEd, "do_edsam")]
    /\ UNCHANGED <<top, moltype, mtop, ir, cr, env, opts, constr, fatal>>

\* ------------------------------------------------------- specifications
EnvUnset == [set |-> FALSE, val |-> <<>>]
EnvStr(str) == [set |-> TRUE, val |-> str]

Mtops(NConstr, NConstrNC, NFlex, NSettles) ==
    {m \in [n_constr : NConstr, n_constrnc : NConstrNC, nflexcon : NFlex,
             nsettles : NSettles] :
        m.nflexcon <= NConstraints(m)}
IrsPbc(Algs, Ints, Dts, Pulls, Epcs, FcSteps, Pbcs) ==
    [eConstrAlg : Algs, eI : Ints, delta_t : Dts, pull : Pulls, epc : Epcs,
     fc_stepsize : FcSteps, ePBC : Pbcs]
Irs(Algs, Ints, Dts, Pulls, Epcs, FcSteps) ==
    IrsPbc(Algs, Ints, Dts, Pulls, Epcs, FcSteps, {epbcNONE})
CrsComm(DDs, InterCG, Comms) ==
    {c \in [dd : DDs, bInterCGcons : InterCG, constraint_comm : Comms] :
        /\ c.bInterCGcons => c.dd
        /\ c.constraint_comm => c.dd}
Crs(DDs, InterCG) == CrsComm(DDs, InterCG, {FALSE})
Envs(MaxWarns, Suppress) ==
    [GMX_MAXCONSTRWARN : MaxWarns, GMX_SUPPRESS_DUMP : Suppress]
Opts(Logs, Threads, EDs) ==
    [fplog : Logs, nthreads : Threads, doEssentialDynamics : EDs]

InitWith(M, I, C, E, O) ==
    /\ mtop \in M
    /\ ir \in I
    /\ cr \in C
    /\ env \in E
    /\ opts \in O
    /\ constr = UninitConstr
    /\ frame = IdleFrame
    /\ fatal = "none"
    /\ top = NoLocalTop
    /\ moltype = NoMolType

Constrain ==
    \/ \E econq \in Econqs, wantVir \in BOOLEAN,
          step_scaling \in {<<1, 1>>, <<1, 2>>}, nsettle \in LocalSettleCounts :
           ConstrainBegin(econq, wantVir, step_scaling, nsettle)
    \/ DDMoveX
    \/ ConstrainLincs
    \/ ConstrainShake
    \/ SettleBegin
    \/ \E th \in Workers : WorkerClear(th)
    \/ \E th \in Workers : WorkerSolve(th)
    \/ \E th \in Workers : WorkerThrow(th)
    \/ RegionEnd
    \/ Reduce
    \/ ScaleVirial
    \/ Dump
    \/ \E delta_step \in DeltaSteps, pullWeight \in PullVirialWeights :
           PullAndEd(delta_step, pullWeight)

Next ==
    \/ init_constraints
    \/ saveEdsamPointer
    \/ Constrain

\* Configurations that differ only in a setting the run never reads are
\* represented once: the algorithm without constraints of the two kinds,
\* the SETTLE thread count without SETTLEs.
Canonical ==
    /\ NConstraints(mtop) = 0 => ir.eConstrAlg = econtLINCS
    /\ mtop.nsettles = 0 => opts.nthreads = 1

AllMtops == Mtops({0, 1}, {0}, {0}, 0..MaxSettle)
BothAlgs == {econtLINCS, econtSHAKE}
MaxWarnEnvs == {EnvUnset, EnvStr(<<"-", "1">>), EnvStr(<<"0">>), EnvStr(<<"1">>)}

\* Serial molecular dynamics under every warning threshold.
InitSerial ==
    InitWith(AllMtops,
             Irs(BothAlgs, {"md"}, {1}, {"off"}, {"no"}, {0}),
             Crs({FALSE}, {FALSE}),
             Envs(MaxWarnEnvs, {FALSE}),
             Opts({TRUE}, 1..MaxThreads, {FALSE}))
\* The same without a log file, and with dumps suppressed.
InitNoLog ==
    InitWith(AllMtops,
             Irs(BothAlgs, {"md"}, {1}, {"off"}, {"no"}, {0}),
             Crs({FALSE}, {FALSE}),
             Envs({EnvStr(<<"1">>)}, {FALSE}),
             Opts({FALSE}, 1..MaxThreads, {FALSE}))
InitSuppress ==
    InitWith(AllMtops,
             Irs(BothAlgs, {"md"}, {1}, {"off"}, {"no"}, {0}),
             Crs({FALSE}, {FALSE}),
             Envs({EnvStr(<<"1">>)}, {TRUE}),
             Opts({TRUE}, 1..MaxThreads, {FALSE}))
\* Domain decomposition.
InitDD ==
    InitWith(AllMtops,
             Irs(BothAlgs, {"md"}, {1}, {"off"}, {"no"}, {0}),
             Crs({TRUE}, {FALSE}),
             Envs({EnvUnset}, {FALSE}),
             Opts({TRUE}, 1..MaxThreads, {FALSE}))
\* Energy minimisation.
InitEM ==
    InitWith(AllMtops,
             Irs(BothAlgs, {"steep"}, {0}, {"off"}, {"no"}, {0}),
             Crs({FALSE}, {FALSE}),
             Envs({EnvUnset}, {FALSE}),
             Opts({TRUE}, 1..MaxThreads, {FALSE}))
\* Essential dynamics and constraint pulling.
InitEDPull ==
    InitWith(Mtops({0, 1}, {0}, {0}, {0, 1}),
             Irs({econtLINCS}, {"md"}, {1}, {"off", "constraint"}, {"no"}, {0}),
             Crs({FALSE}, {FALSE}),
             Envs({EnvUnset}, {FALSE}),
             Opts({TRUE}, {1}, BOOLEAN))

Init ==
    /\ InitSerial \/ InitNoLog \/ InitSuppress \/ InitDD \/ InitEM \/ InitEDPull
    /\ Canonical

Spec == Init /\ [][Next]_vars

\* Runs that request virials: every time step and integrator family.
InitVirialMD ==
    InitWith(AllMtops,
             Irs({econtLINCS}, {"md", "vv"}, 0..MaxDt, {"off"}, {"no"}, {0}),
             Crs({FALSE}, {FALSE}),
             Envs({EnvUnset}, {FALSE}),
             Opts({TRUE}, 1..MaxThreads, {FALSE}))
InitVirial ==
    /\ InitVirialMD \/ InitEM \/ InitEDPull
    /\ Canonical

SpecVirial == InitVirial /\ [][Next]_vars

\* Initialization alone, over every combination of its inputs.
LongMaxWarnEnvs ==
    {EnvStr(<<"5">>), EnvStr(<<"-", "1", "2", "3", "4", "5", "6", "7", "8", "9">>),
     EnvStr(<<"1", "2", "3", "4", "5", "6", "7", "8", "9">>)}
InitInputs ==
    /\ InitWith(Mtops({0, 1}, {0, 1}, {0, 1}, {0, 1}),
                Irs(BothAlgs, {"md", "steep"}, {1},
                    {"off", "umbrella", "constraint"}, {"no", "MTTK"}, {0, 1}),
                Crs(BOOLEAN, BOOLEAN),
                Envs(MaxWarnEnvs \cup LongMaxWarnEnvs, {FALSE}),
                Opts(BOOLEAN, {1, MaxThreads}, BOOLEAN))
    /\ Canonical

SpecInit == InitInputs /\ [][init_constraints]_vars

\* ------------------------------------------- atom indices of a molecule type
\* Interaction parameters of the constraint types: target lengths dA and dB
\* of the two free-energy end states.
IParams ==
    [rigid |-> [dA |-> 1, dB |-> 1],
     flexible |-> [dA |-> 0, dB |-> 0],
     zeroA |-> [dA |-> 0, dB |-> 1]]

\* bFlexCon of the entry ia = <<type, atom, atom>> of an interaction list.
bFlexCon(iparams, ia) == iparams[ia[1]].dA = 0 /\ iparams[ia[1]].dB = 0

\* The constraints in the order of the loop over F_CONSTR and F_CONSTRNC.
ConstraintLoop(ilist) == ilist.F_CONSTR \o ilist.F_CONSTRNC

\* Whether a constraint enters the index.
InIndexAlways(bDynamics, flex) == TRUE
InIndex(bDynamics, flex) == bDynamics \/ ~flex

\* The first pass: nflexcon and count[a] after the constraints k .. end.
RECURSIVE CountFlex(_, _, _)
CountFlex(iparams, cons, k) ==
    IF k > Len(cons) THEN 0
    ELSE (IF bFlexCon(iparams, cons[k]) THEN 1 ELSE 0)
         + CountFlex(iparams, cons, k + 1)

RECURSIVE CountPass(_, _, _, _, _, _)
CountPass(start, iparams, bDynamics, cons, k, count) ==
    IF k > Len(cons) THEN count
    ELSE LET ia == cons[k]
             a1 == ia[2] - start
             a2 == ia[3] - start
             c1 == IF InIndex(bDynamics, bFlexCon(iparams, ia))
                   THEN [count EXCEPT ![a1] = @ + 1] ELSE count
             c2 == IF InIndex(bDynamics, bFlexCon(iparams, ia))
                   THEN [c1 EXCEPT ![a2] = @ + 1] ELSE c1
         IN  CountPass(start, iparams, bDynamics, cons, k + 1, c2)

\* at2con.index: index[0] = 0, index[a+1] = index[a] + count[a].
RECURSIVE IndexOf(_, _)
IndexOf(count, a) == IF a = 0 THEN 0 ELSE IndexOf(count, a - 1) + count[a - 1]

\* con_tot after a constraint has been visited.
NextConTotIfIndexed(con_tot, indexed) == IF indexed THEN con_tot + 1 ELSE con_tot
NextConTot(con_tot, indexed) == con_tot + 1

\* The second pass: at2con.a and count[a] after the constraints k .. end,
\* arr being a function of the positions index[a] + count[a].
RECURSIVE FillPass(_, _, _, _, _, _, _, _)
FillPass(start, iparams, bDynamics, cons, k, con_tot, index, st) ==
    IF k > Len(cons) THEN st
    ELSE LET ia == cons[k]
             indexed == InIndex(bDynamics, bFlexCon(iparams, ia))
             a1 == ia[2] - start
             a2 == ia[3] - start
             s1 == [count |-> [st.count EXCEPT ![a1] = @ + 1],
                    a |-> [st.a EXCEPT ![index[a1] + st.count[a1]] = con_tot]]
             s2 == [count |-> [s1.count EXCEPT ![a2] = @ + 1],
                    a |-> [s1.a EXCEPT ![index[a2] + s1.count[a2]] = con_tot]]
         IN  FillPass(start, iparams, bDynamics, cons, k + 1,
                      NextConTot(con_tot, indexed), index,
                      IF indexed THEN s2 ELSE st)

\* make_at2con: the block at2con (nr, index, nra, a) and *nflexiblecons.
MakeAt2con(start, natoms, ilist, iparams, bDynamics) ==
    LET cons == ConstraintLoop(ilist)
        zero == [a \in 0..(natoms - 1) |-> 0]
        count == CountPass(start, iparams, bDynamics, cons, 1, zero)
        index == [a \in 0..natoms |-> IndexOf(count, a)]
        nra == index[natoms]
        filled == FillPass(start, iparams, bDynamics, cons, 1, 0, index,
                           [count |-> zero, a |-> [p \in 0..(nra - 1) |-> -1]])
    IN  [nr |-> natoms, index |-> index, nra |-> nra, a |-> filled.a,
         nflexiblecons |-> CountFlex(iparams, cons, 1)]

make_at2con ==
    /\ moltype.job = "at2con"
    /\ moltype' = [moltype EXCEPT
           !.job = "at2con_done",
           !.at2con = MakeAt2con(moltype.start, moltype.natoms, moltype.ilist,
                                 IParams, moltype.bDynamics)]
    /\ UNCHANGED <<top, mtop, ir, cr, env, opts, constr, frame, fatal>>

\* Group index stored for the entry starting at position s.
SettleIndexRaw(s, stride) == s
SettleIndex(s, stride) == s \div stride

\* iatoms[p] of an interaction list (positions count from 0).
IAtom(ilist, p) == ilist.iatoms[p + 1]

\* The loop of make_at2settle over the entries s, s + stride, ...
RECURSIVE SettleLoop(_, _, _, _)
SettleLoop(at2s, ilist, s, stride) ==
    IF s >= ilist.nr THEN at2s
    ELSE LET g == SettleIndex(s, stride)
             t1 == [at2s EXCEPT ![IAtom(ilist, s + 1)] = g]
             t2 == [t1 EXCEPT ![IAtom(ilist, s + 2)] = g]
             t3 == [t2 EXCEPT ![IAtom(ilist, s + 3)] = g]
         IN  SettleLoop(t3, ilist, s + stride, stride)

\* make_at2settle: every atom starts as -1 (no settle).
MakeAt2settle(natoms, ilist) ==
    SettleLoop([a \in 0..(natoms - 1) |-> -1], ilist, 0, 1 + NRAL_SETTLE)

make_at2settle ==
    /\ moltype.job = "at2settle"
    /\ moltype' = [moltype EXCEPT
           !.job = "at2settle_done",
           !.at2settle = MakeAt2settle(moltype.natoms, moltype.ilist)]
    /\ UNCHANGED <<top, mtop, ir, cr, env, opts, constr, frame, fatal>>

\* Molecule types handed to make_at2con: constraints between two different
\* atoms, of any parameter type, at most MaxCons over the two kinds.
ConstraintEntries ==
    {<<t, a1, a2>> : t \in DOMAIN IParams,
                     a1 \in 0..(MaxAtoms - 1), a2 \in 0..(MaxAtoms - 1)}
SeqsUpTo(S, n) == UNION {[1..k -> S] : k \in 0..n}
ConstraintLists == SeqsUpTo({e \in ConstraintEntries : e[2] < e[3]}, MaxCons)
At2conJobs ==
    {[job |-> "at2con", start |-> 0, natoms |-> MaxAtoms,
      ilist |-> [F_CONSTR |-> cc[1], F_CONSTRNC |-> cc[2]],
      bDynamics |-> d, at2con |-> <<>>] :
        cc \in {q \in ConstraintLists \X ConstraintLists :
                   Len(q[1]) + Len(q[2]) <= MaxCons},
        d \in BOOLEAN}

\* Molecule types handed to make_at2settle: at most MaxSettle SETTLE groups
\* of three different atoms each, no atom in two groups, and at least one
\* atom in no group.
SettleAtoms == 0..(NRAL_SETTLE * MaxSettle)
SettleGroups ==
    {<<a1, a2, a3>> : a1 \in SettleAtoms, a2 \in SettleAtoms, a3 \in SettleAtoms}
Disjoint(gs) ==
    \A i \in DOMAIN gs, j \in DOMAIN gs :
        i # j => {gs[i][1], gs[i][2], gs[i][3]} \cap {gs[j][1], gs[j][2], gs[j][3]} = {}
RECURSIVE Flatten(_, _)
Flatten(gs, k) ==
    IF k > Len(gs) THEN <<>>
    ELSE <<"settle", gs[k][1], gs[k][2], gs[k][3]>> \o Flatten(gs, k + 1)
At2settleJobs ==
    {[job |-> "at2settle", natoms |-> Cardinality(SettleAtoms),
      ilist |-> [nr |-> (1 + NRAL_SETTLE) * Len(gs), iatoms |-> Flatten(gs, 1)],
      groups |-> gs, at2settle |-> <<>>] :
        gs \in {q \in SeqsUpTo({g \in SettleGroups : g[1] < g[2] /\ g[2] < g[3]},
                               MaxSettle) : Disjoint(q)}}

\* The index builders alone, over every such molecule type.
InitIndex ==
    /\ mtop \in Mtops({1}, {0}, {0}, {1})
    /\ ir \in Irs({econtLINCS}, {"md"}, {1}, {"off"}, {"no"}, {0})
    /\ cr \in Crs({FALSE}, {FALSE})
    /\ env \in Envs({EnvUnset}, {FALSE})
    /\ opts \in Opts({TRUE}, {1}, {FALSE})
    /\ constr = UninitConstr
    /\ frame = IdleFrame
    /\ fatal = "none"
    /\ top = NoLocalTop
    /\ moltype \in At2conJobs \cup At2settleJobs
NextIndex == make_at2con \/ make_at2settle

SpecIndex == InitIndex /\ [][NextIndex]_vars

\* Runs in which the runner also reconfigures the manager for the local
\* domain: domain decomposition, and essential dynamics with pulling.
InitDomain ==
    /\ InitDD \/ InitEDPull
    /\ Canonical
NextDomain ==
    \/ Next
    \/ set_constraints
SpecDomain == InitDomain /\ [][NextDomain]_vars

\* Serial runs of a topology with SETTLEs only, calling constrain for the
\* quantities of the projection path, over every number of groups and of
\* workers.
InitPartition ==
    InitWith(Mtops({0}, {0}, {0}, 1..MaxGroups),
             Irs({econtLINCS}, {"md"}, {1}, {"off"}, {"no"}, {0}),
             Crs({FALSE}, {FALSE}),
             Envs({EnvUnset}, {FALSE}),
             Opts({TRUE}, 1..MaxWorkers, {FALSE}))
NextPartition ==
    \/ init_constraints
    \/ \E econq \in {econqVeloc, econqDeriv, econqForce} :
           ConstrainBegin(econq, FALSE, <<1, 1>>, mtop.nsettles)
    \/ DDMoveX
    \/ ConstrainLincs
    \/ ConstrainShake
    \/ SettleBegin
    \/ \E th \in Workers : WorkerClear(th)
    \/ \E th \in Workers : WorkerSolve(th)
    \/ RegionEnd
    \/ Reduce
    \/ ScaleVirial
    \/ Dump
    \/ PullAndEd(0, 0)
SpecPartition == InitPartition /\ [][NextPartition]_vars

\* gmx_omp_nthreads_get(emntSETTLE) returns the thread count configured for
\* SETTLE at the time it is called; the configuration can be changed between
\* the calls of init_constraints and constrain.
gmx_omp_nthreads_set(n) ==
    /\ fatal = "none"
    /\ frame.pc \in {"idle", "done"}
    /\ n # opts.nthreads
    /\ opts' = [opts EXCEPT !.nthreads = n]
    /\ UNCHANGED <<top, moltype, mtop, ir, cr, env, constr, frame, fatal>>

\* Outcomes of an access to constr->vir_r_m_dr_th[th] beyond the slots that
\* init_constraints allocated (none at all when it saw one thread).
InvalidAccessOutcomes == {"sigsegv", "memory_corrupted"}

\* Worker th > 0 clears a slot that was never allocated.
WorkerOutOfBounds(th) ==
    /\ fatal = "none"
    /\ frame.pc = "region"
    /\ th > 0
    /\ frame.th_pc[th] = "start"
    /\ th \notin DOMAIN constr.vir_r_m_dr_th
    /\ fatal' \in InvalidAccessOutcomes
    /\ UNCHANGED <<top, moltype, mtop, ir, cr, env, opts, constr, frame>>

\* The reduction adds a slot that was never allocated (reached without a
\* region for econqDeriv_FlexCon).
ReduceOutOfBounds ==
    /\ fatal = "none"
    /\ frame.pc = "reduce"
    /\ frame.wantVir
    /\ \E th \in 1..(frame.nth - 1) : th \notin DOMAIN constr.vir_r_m_dr_th
    /\ fatal' \in InvalidAccessOutcomes
    /\ UNCHANGED <<top, moltype, mtop, ir, cr, env, opts, constr, frame>>

\* Runs in which the thread count for SETTLE is changed between calls.
InitThreads ==
    InitWith(Mtops({0}, {0}, {0}, {1}),
             Irs({econtLINCS}, {"md"}, {1}, {"off"}, {"no"}, {0}),
             Crs({FALSE}, {FALSE}),
             Envs({EnvUnset}, {FALSE}),
             Opts({TRUE}, 1..MaxThreads, BOOLEAN))
NextThreads ==
    \/ Next
    \/ \E n \in 1..MaxThreads : gmx_omp_nthreads_set(n)
    \/ \E th \in Workers : WorkerOutOfBounds(th)
    \/ ReduceOutOfBounds
SpecThreads == InitThreads /\ [][NextThreads]_vars

\* Runs with and without periodic boundaries, domain decomposition and
\* constraint communication.
InitPbc ==
    /\ InitWith(Mtops({1}, {0}, {0}, {1}),
                IrsPbc(BothAlgs, {"md"}, {1}, {"off"}, {"no"}, {0},
                       {epbcNONE, epbcXYZ}),
                CrsComm(BOOLEAN, {FALSE}, BOOLEAN),
                Envs({EnvUnset}, {FALSE}),
                Opts({TRUE}, {MaxThreads}, {TRUE}))
    /\ Canonical
SpecPbc == InitPbc /\ [][Next]_vars

\* ------------------------------------------------------------ properties
InTrace(e) == \E k \in 1..Len(frame.trace) : frame.trace[k] = e
Logged(m) == \E k \in 1..Len(frame.log) : frame.log[k] = m
WorkerFailed == \E th \in DOMAIN frame.csettle_ret : frame.csettle_ret[th] = "failed"
AnySolverFailed ==
    frame.lincs_ret = "failed" \/ frame.shake_ret = "failed" \/ WorkerFailed
Returned == frame.pc = "done"

\* C1: a constrain call that returns reports failure exactly when at least
\* one solver invoked in that call (LINCS, SHAKE or a SETTLE worker) reported
\* failure, and success when every invoked solver succeeded.
ReturnsCombinedFlag == Returned => (frame.bOK <=> ~AnySolverFailed)

\* C1 witness: the linear solver failed, the SETTLE workers that ran after it
\* all succeeded, and the call returned failure.
LincsFailureSurvivesSettle ==
    /\ Returned
    /\ frame.lincs_ret = "failed"
    /\ frame.nth > 1
    /\ DOMAIN frame.csettle_ret = Workers
    /\ \A th \in DOMAIN frame.csettle_ret : frame.csettle_ret[th] = "ok"
    /\ ~frame.bOK

\* C2: the SETTLE warning counter changes only in the reduction step, where
\* it grows by exactly one iff the call constrains coordinates and some worker
\* reported failure; the run is ended for too many SETTLE warnings exactly
\* when the counter strictly exceeds maxwarn, so no state that is not fatal
\* has a counter above maxwarn (with maxwarn = 0 the first failure is fatal).
SettleCounterStep ==
    constr'.warncount_settle =
        constr.warncount_settle +
            (IF /\ frame.pc = "reduce"
                /\ frame.econq = econqCoord
                /\ WorkerFailed
             THEN 1 ELSE 0)
SettleFatalExactly ==
    (fatal = "too_many_settle") <=>
        (constr.kind = "active" /\ constr.warncount_settle > constr.maxwarn)
SettleWarningPolicy == [][SettleCounterStep]_vars /\ []SettleFatalExactly

\* C2 witness: under maxwarn = 1 a first failure was counted without ending
\* the run and the second one ended it.
SecondSettleFailureFatal ==
    /\ fatal = "too_many_settle"
    /\ constr.maxwarn = 1
    /\ constr.warncount_settle = 2

\* C3 (as claimed): without an override the threshold is 999, a non-negative
\* override sets the threshold to that value, and a negative override makes
\* the threshold unlimited, so that no run ends for too many warnings.
EnvValue(e) ==
    IF Head(e.val) = "-" THEN -DecVal(Tail(e.val)) ELSE DecVal(e.val)
ThresholdAsClaimed ==
    constr.kind = "active" =>
        LET e == env.GMX_MAXCONSTRWARN
        IN  /\ ~e.set => constr.maxwarn = DefaultMaxWarn
            /\ (e.set /\ EnvValue(e) >= 0) => constr.maxwarn = EnvValue(e)
            /\ (e.set /\ EnvValue(e) < 0) =>
                   /\ constr.maxwarn = INT_MAX
                   /\ fatal \notin {"too_many_lincs", "too_many_settle"}

\* C4: once the reduction of a call whose SETTLE workers ran has been done
\* with a virial requested, the reduced tensor is what one thread produces on
\* the same input: the iterative solver's contribution plus the contribution
\* of every SETTLE group exactly once, whatever the thread count and the
\* order in which the workers ran.
RegionRan == frame.th_pc # <<>>
Reduced == frame.pc \in {"virial", "dump", "after", "done"}
SingleThreadedVirial ==
    MAdd(IF frame.lincs_ret # "not_run" \/ frame.shake_ret # "not_run"
         THEN SolverVirial ELSE ClearMat,
         MScale(RangeWeight(0, frame.nsettle), UnitVirial))
ForceDisplFatalStep ==
    (fatal' = "incons_forcedispl" /\ fatal = "none") =>
        (frame' = frame /\ constr' = constr)
ForceDisplOnlyInEM ==
    (frame.pc # "idle" /\ frame.econq = econqForceDispl) =>
        EI_ENERGY_MINIMIZATION(ir.eI)
ForceDisplContract == [][ForceDisplFatalStep]_vars /\ []ForceDisplOnlyInEM

\* C5 witness: the run was ended by such a call after an earlier call had
\* returned.
ForceDisplRejected ==
    /\ fatal = "incons_forcedispl"
    /\ Returned
    /\ ~EI_ENERGY_MINIMIZATION(ir.eI)

\* C6: the steps of one call happen in the order exchange, linear solver,
\* pairwise solver, parallel region, reduction: the calling thread's events
\* are strictly ordered, under domain decomposition the exchange is the first
\* of them, SETTLE workers run only between the start and the end of the
\* region, and the reduction is done only after every worker has completed.
EventRank(e) ==
    CASE e = "dd_move_x_constraints" -> 1
      [] e = "lincs" -> 2
      [] e = "shake" -> 3
      [] e = "region_begin" -> 4
      [] e = "region_end" -> 5
      [] e = "reduce" -> 6
      [] e = "scale_virial" -> 7
      [] e = "dump_confs" -> 8
      [] e = "pull_constraint" -> 9
      [] e = "do_edsam" -> 10
WorkerStarted(th) == frame.th_pc[th] # "start"
WorkerDone(th) == frame.th_pc[th] = "done"
CallOrdered ==
    /\ \A k \in 1..(Len(frame.trace) - 1) :
           EventRank(frame.trace[k]) < EventRank(frame.trace[k + 1])
    /\ (cr.dd /\ frame.trace # <<>>) => frame.trace[1] = "dd_move_x_constraints"
    /\ \A th \in DOMAIN frame.th_pc :
           /\ WorkerStarted(th) => InTrace("region_begin")
           /\ ~WorkerDone(th) => ~InTrace("region_end") /\ ~InTrace("reduce")
    /\ InTrace("region_begin") => DOMAIN frame.th_pc = Workers

\* C6 witness: under domain decomposition a call ran the exchange, the
\* linear solver, a region of several workers and the reduction.
FullCallUnderDD ==
    /\ cr.dd
    /\ frame.nth > 1
    /\ InTrace("lincs")
    /\ InTrace("region_end")
    /\ InTrace("reduce")

\* C7 (as claimed): under a finite threshold every solver failure in a call
\* logs a message and has both snapshots written for that step, or neither
\* when GMX_SUPPRESS_DUMP is set.
FiniteThreshold == constr.kind = "active" /\ constr.maxwarn < INT_MAX
CallEnded == Returned \/ fatal # "none"
BothSnapshots == <<"step_b.pdb", "step_c.pdb">>
ExpectedDumps == IF env.GMX_SUPPRESS_DUMP THEN <<>> ELSE BothSnapshots
EveryFailureDumps ==
    (FiniteThreshold /\ AnySolverFailed /\ CallEnded) =>
        (frame.log # <<>> /\ frame.dumps = ExpectedDumps)

\* C7 (amended): under a finite threshold every solver failure in a call that
\* reaches its dump step (the call is not ended before it by a fatal error)
\* has the pre-constraint and then the post-constraint snapshot written, or
\* neither when GMX_SUPPRESS_DUMP is set; a SETTLE failure is reported on
\* stderr, and every failure is reported in the log file when one is open.
PastDump == frame.pc \in {"after", "done"}
FailureDumpsWhenCallContinues ==
    (FiniteThreshold /\ AnySolverFailed /\ PastDump) =>
        /\ frame.dumps = ExpectedDumps
        /\ opts.fplog => frame.log # <<>>
        /\ WorkerFailed =>
               Logged("stderr: One or more water molecules can not be settled")

\* C7 witness: a failure under a finite threshold after which the call went
\* on and both snapshots were written.
FailureDumped ==
    /\ FiniteThreshold /\ AnySolverFailed /\ Returned
    /\ frame.dumps = BothSnapshots

\* C8 (as claimed): with a time step of zero the inverse time step is 0, no
\* quotient with divisor zero is computed, and a virial written for
\* econqCoord is all zeros.
IsZeroVir(v) == \A i \in Dims, j \in Dims : v[i][j] = RZero
ZeroTimeStepIsSafe ==
    (ir.delta_t = 0 /\ frame.pc # "idle") =>
        /\ frame.invdt = RZero
        /\ fatal # "sigfpe"
        /\ RIsFinite(frame.vir_fac)
        /\ (frame.virWritten /\ frame.econq = econqCoord) => IsZeroVir(frame.vir)

\* C9 (as claimed): a virial handed back by a call that returns equals, in
\* every component, the reduced tensor times 0.5/dt^2 (econqCoord), 0.5/dt
\* (econqVeloc) or 0.5 (econqForce, econqForceDispl), doubled for velocity
\* Verlet; for any other quantity a requested virial ends the call and the
\* caller's virial is never written.
ClaimedFactorNum == IF EI_VV(ir.eI) THEN 2 ELSE 1
ClaimedFactorDen ==
    IF frame.econq = econqCoord THEN 2 * ir.delta_t * ir.delta_t
    ELSE IF frame.econq = econqVeloc THEN 2 * ir.delta_t
    ELSE 2
ClaimedVirial ==
    [i \in Dims |-> [j \in Dims |->
        RNorm(frame.vir_r_m_dr[i][j] * ClaimedFactorNum, ClaimedFactorDen)]]
UnsupportedVirialIsFatal ==
    (frame.pc # "idle" /\ frame.wantVir /\ frame.econq \notin VirialQuantities) =>
        (~frame.virWritten /\ frame.pc \notin {"dump", "after", "done"})
InitEnded == constr.kind # "uninit" \/ fatal # "none"
NothingToConstrain ==
    /\ mtop.n_constr = 0 /\ mtop.n_constrnc = 0 /\ mtop.nsettles = 0
    /\ ir.pull # "constraint"
    /\ ~opts.doEssentialDynamics
InactiveIffNothingToConstrain ==
    InitEnded =>
        /\ (constr.kind = "nullptr") <=> NothingToConstrain
        /\ ~NothingToConstrain => (constr.kind = "active" \/ fatal # "none")
        /\ constr.kind = "nullptr" => n_flexible_constraints(constr) = 0

\* C10 witness: the nullptr manager was returned although pulling (without a
\* constraint) is switched on.
InactiveManagerReturned ==
    /\ constr.kind = "nullptr"
    /\ bPull(ir)
    /\ n_flexible_constraints(constr) = 0

\* The case of C7 in which the flagged dump is never reached: the failure
\* that takes the SETTLE counter over the threshold is reported and ends the
\* run before any snapshot is written.
SettleFailureFatalBeforeDump ==
    /\ fatal = "too_many_settle"
    /\ WorkerFailed
    /\ frame.dumps = <<>>

\* C11 (as claimed): init_constraints ends the run whenever SHAKE is selected
\* and the topology has a flexible constraint, whatever fc_stepsize is and
\* whether or not a log file is open.
FlexibleWithShake ==
    /\ NConstraints(mtop) > 0 /\ mtop.nflexcon > 0
    /\ ir.eConstrAlg = econtSHAKE
FlexibleWithShakeIsFatal ==
    (InitEnded /\ FlexibleWithShake) => (fatal # "none" /\ constr.kind # "active")

\* C12: init_constraints ends the run when constraints exist, SHAKE is
\* selected and domain decomposition has constraints crossing charge-group
\* boundaries, and when any constraint or SETTLE exists together with MTTK
\* pressure control; in neither configuration is a manager returned, so no
\* constrain call can start.
ShakeAcrossChargeGroups ==
    /\ NConstraints(mtop) > 0
    /\ ir.eConstrAlg = econtSHAKE
    /\ DOMAINDECOMP(cr) /\ cr.bInterCGcons
ConstraintsWithMTTK ==
    NConstraints(mtop) + mtop.nsettles > 0 /\ ir.epc = "MTTK"
IncompatibleConfigIsFatalAtInit ==
    InitEnded =>
        /\ ShakeAcrossChargeGroups =>
               (fatal = "shake_dd_intercg" /\ constr.kind = "uninit")
        /\ ConstraintsWithMTTK =>
               (fatal # "none" /\ constr.kind = "uninit")
        /\ (ShakeAcrossChargeGroups \/ ConstraintsWithMTTK) => frame = IdleFrame

\* C12 witness: a topology whose only constraints are SETTLEs was rejected
\* because of MTTK pressure control.
MTTKRejected ==
    /\ fatal = "mttk"
    /\ NConstraints(mtop) = 0 /\ mtop.nsettles > 0

\* C13: for a molecule type with k rigid and m flexible constraints,
\* make_at2con reports m flexible constraints for either value of bDynamics;
\* the index holds 2k entries without dynamics and 2(k+m) with it; each
\* constraint that enters the index appears exactly once in the list of each
\* of its two atoms and in the list of no other atom.
At2conDone == moltype.job = "at2con_done"
MolCons == ConstraintLoop(moltype.ilist)
IsFlexible(c) == IParams[c[1]].dA = 0 /\ IParams[c[1]].dB = 0
NumFlexible == Cardinality({k \in DOMAIN MolCons : IsFlexible(MolCons[k])})
NumRigid == Cardinality({k \in DOMAIN MolCons : ~IsFlexible(MolCons[k])})
Entered(k) == moltype.bDynamics \/ ~IsFlexible(MolCons[k])
\* Positions of the list of atom a in at2con.a, and how often it names n.
AtomList(a) == moltype.at2con.index[a]..(moltype.at2con.index[a + 1] - 1)
Occurrences(a, n) ==
    Cardinality({p \in AtomList(a) : moltype.at2con.a[p] = n})
At2conCountsAndAdjacency ==
    At2conDone =>
        /\ moltype.at2con.nflexiblecons = NumFlexible
        /\ moltype.at2con.nra =
               IF moltype.bDynamics THEN 2 * (NumRigid + NumFlexible)
               ELSE 2 * NumRigid
        /\ DOMAIN moltype.at2con.a = 0..(moltype.at2con.nra - 1)
        /\ \A k \in DOMAIN MolCons, a \in 0..(moltype.natoms - 1) :
               Occurrences(a, k - 1) =
                   IF Entered(k) /\ a \in {MolCons[k][2], MolCons[k][3]}
                   THEN 1 ELSE 0

\* C13 witness: an index built without dynamics for a molecule type with a
\* flexible and a rigid constraint.
FlexibleLeftOut ==
    /\ At2conDone /\ ~moltype.bDynamics
    /\ NumFlexible = 1 /\ NumRigid = 1
    /\ moltype.at2con.nra = 2

\* C14: the constraint numbers stored by make_at2con are global and
\* contiguous over the two kinds: constraint i of F_CONSTR has number i,
\* constraint j of F_CONSTRNC has number n1 + j with n1 the number of F_CONSTR
\* constraints, and a flexible constraint left out of the index keeps its
\* number, so the numbers of the others do not shift.
NumFirstKind == Len(moltype.ilist.F_CONSTR)
StoredNumbers(a) == {moltype.at2con.a[p] : p \in AtomList(a)}
NumbersOfFirstKind(a) ==
    {i \in 0..(NumFirstKind - 1) :
        LET c == moltype.ilist.F_CONSTR[i + 1]
        IN  a \in {c[2], c[3]} /\ (moltype.bDynamics \/ ~IsFlexible(c))}
NumbersOfSecondKind(a) ==
    {NumFirstKind + j : j \in
        {j \in 0..(Len(moltype.ilist.F_CONSTRNC) - 1) :
            LET c == moltype.ilist.F_CONSTRNC[j + 1]
            IN  a \in {c[2], c[3]} /\ (moltype.bDynamics \/ ~IsFlexible(c))}}
ConstraintNumbersAreGlobal ==
    At2conDone =>
        \A a \in 0..(moltype.natoms - 1) :
            StoredNumbers(a) = NumbersOfFirstKind(a) \cup NumbersOfSecondKind(a)

\* C14 witness: a flexible F_CONSTR constraint was left out of the index and
\* the F_CONSTRNC constraint after it is stored under number 1.
NumberKeptAfterOmission ==
    /\ At2conDone /\ ~moltype.bDynamics
    /\ NumFirstKind = 1 /\ IsFlexible(moltype.ilist.F_CONSTR[1])
    /\ Len(moltype.ilist.F_CONSTRNC) = 1
    /\ ~IsFlexible(moltype.ilist.F_CONSTRNC[1])
    /\ StoredNumbers(moltype.ilist.F_CONSTRNC[1][2]) = {1}

\* C15: the index built by make_at2settle maps each of the three atoms of
\* SETTLE group s (s counting the groups of the list from 0) to s, and every
\* atom that is in no group to -1.
At2settleDone == moltype.job = "at2settle_done"
GroupAtoms(s) ==
    {moltype.groups[s + 1][1], moltype.groups[s + 1][2], moltype.groups[s + 1][3]}
GroupedAtoms == UNION {GroupAtoms(s) : s \in 0..(Len(moltype.groups) - 1)}
At2settleMapsGroups ==
    At2settleDone =>
        /\ DOMAIN moltype.at2settle = 0..(moltype.natoms - 1)
        /\ \A s \in 0..(Len(moltype.groups) - 1) :
               \A a \in GroupAtoms(s) : moltype.at2settle[a] = s
        /\ \A a \in (0..(moltype.natoms - 1)) \ GroupedAtoms :
               moltype.at2settle[a] = -1

\* C15 witness: an index built for two groups, the atoms of the second
\* mapped to 1 and an atom outside both mapped to -1.
SecondGroupIndexed ==
    /\ At2settleDone
    /\ Len(moltype.groups) = 2
    /\ \A a \in GroupAtoms(1) : moltype.at2settle[a] = 1
    /\ \E a \in 0..(moltype.natoms - 1) : moltype.at2settle[a] = -1

\* C16: in every state reached by init_constraints and any sequence of
\* set_constraints and constrain calls at most one of the LINCS and the SHAKE
\* handle is present, set_constraints hands the constraints to at most one of
\* the two solvers, and no constrain call invokes both.
SingleSolverFamily ==
    /\ constr.kind = "active" => ~(constr.lincsd /\ constr.shaked)
    /\ ~(top.lincs /\ top.shake # "none")
    /\ ~(frame.lincs_ret # "not_run" /\ frame.shake_ret # "not_run")

\* C16 witness: after set_constraints under domain decomposition a constrain
\* call returned in which SHAKE ran and LINCS did not.
ShakeAloneAfterReconfiguration ==
    /\ top.shake = "dd"
    /\ Returned
    /\ frame.shake_ret # "not_run" /\ frame.lincs_ret = "not_run"

\* C17: in the projection path worker k of nth is handed the groups
\* [k*ngroups/nth, (k+1)*ngroups/nth) (integer division); the ranges handed
\* out are pairwise disjoint and cover 0 .. ngroups-1, so every group is
\* processed by exactly one worker, and a worker whose range is empty invokes
\* no solver.
ProjectionRegionDone ==
    /\ frame.pc = "reduce"
    /\ frame.econq \in {econqVeloc, econqDeriv, econqForce, econqForceDispl}
    /\ DOMAIN frame.ranges = Workers
GroupsOf(th) ==
    IF frame.ranges[th].invoked
    THEN frame.ranges[th].start..(frame.ranges[th].end - 1)
    ELSE {}
ClaimedRange(k) ==
    ((k * frame.nsettle) \div frame.nth)..((((k + 1) * frame.nsettle) \div frame.nth) - 1)
RangesPartitionGroups ==
    ProjectionRegionDone =>
        /\ \A k \in Workers : GroupsOf(k) = ClaimedRange(k)
        /\ \A k \in Workers : frame.ranges[k].invoked <=> ClaimedRange(k) # {}
        /\ \A j \in Workers, k \in Workers :
               j # k => GroupsOf(j) \cap GroupsOf(k) = {}
        /\ UNION {GroupsOf(k) : k \in Workers} = 0..(frame.nsettle - 1)
        /\ \A g \in 0..(frame.nsettle - 1) :
               Cardinality({k \in Workers : g \in GroupsOf(k)}) = 1

\* C17 witness: three workers shared two groups, so one of them invoked no
\* solver.
WorkerWithEmptyRange ==
    /\ ProjectionRegionDone
    /\ frame.nsettle = 2 /\ frame.nth = 3
    /\ \E k \in Workers : ~frame.ranges[k].invoked
    /\ \E k \in Workers : frame.ranges[k].invoked

\* C18 (as claimed): in every constrain call the virial slot and the failure
\* flag of every worker > 0 hold, when they are reduced, what that call wrote
\* (the virial slot is read when a virial is requested, the flag when
\* coordinates are constrained), never a value left by an earlier call.
SettleMessage == "stderr: One or more water molecules can not be settled"
RegionWorkers == DOMAIN frame.th_pc
FreshSlot(th) ==
    IF /\ th \in RegionWorkers
       /\ frame.wantVir
       /\ EndTh(frame.nsettle, th, frame.nth) > StartTh(frame.nsettle, th, frame.nth)
    THEN RangeVirial(StartTh(frame.nsettle, th, frame.nth),
                     EndTh(frame.nsettle, th, frame.nth))
    ELSE ClearMat
SlotsFresh ==
    \A th \in 1..(frame.nth - 1) :
        /\ frame.wantVir => constr.vir_r_m_dr_th[th] = FreshSlot(th)
        /\ frame.econq = econqCoord =>
               (constr.bSettleErrorHasOccurred[th] <=>
                    frame.csettle_ret[th] = "failed")
RegionEntered == DOMAIN frame.writes = Workers /\ DOMAIN frame.th_pc = Workers
NoSharedWrites ==
    RegionEntered =>
        /\ \A j \in Workers, k \in Workers :
               j # k => frame.writes[j] \cap frame.writes[k] = {}
        /\ frame.writes[0] \subseteq {SharedVirial, SharedFlag}
        /\ \A k \in Workers \ {0} :
               frame.writes[k] \subseteq {SlotVirial(k), SlotFlag(k)}
        /\ frame.pc = "region" => ~InTrace("reduce")
        /\ InTrace("reduce") => \A k \in Workers : frame.th_pc[k] = "done"

\* C19 witness: two workers are both inside the region, each having written
\* its own virial and failure-flag location.
TwoWorkersWriting ==
    /\ frame.pc = "region"
    /\ frame.nth = 2
    /\ frame.writes[0] = {SharedVirial, SharedFlag}
    /\ frame.writes[1] = {SlotVirial(1), SlotFlag(1)}

\* C20 (as claimed): the number of workers of every constrain call is the
\* thread count that init_constraints saw, whatever the thread count is when
\* the call is made, so every worker index > 0 used in a parallel region has
\* a slot allocated by init_constraints.
ThreadsSeenAtInit ==
    IF DOMAIN constr.vir_r_m_dr_th = {} THEN 1
    ELSE Cardinality(DOMAIN constr.vir_r_m_dr_th)
WorkerIndexWithinSlots ==
    /\ (frame.pc # "idle" /\ frame.nsettle > 0) => frame.nth = ThreadsSeenAtInit
    /\ frame.pc = "region" =>
           \A th \in Workers \ {0} : th \in DOMAIN constr.vir_r_m_dr_th

\* C21 (as claimed): in every constrain call each solver that runs is handed
\* a periodic-boundary context if and only if periodic boundaries are enabled
\* and (domain decomposition is active or bMolPBC is requested) and not
\* (domain decomposition is active without constraint communication).
PbcEnabled == NeedsPbc(ir.ePBC, cr.dd, cr.constraint_comm, frame.bMolPBC)
SolversCalled == {s \in {"lincs", "shake", "settle"} : frame.handed[s] # "not_called"}
PbcHandedIffEnabled ==
    \A s \in SolversCalled : (frame.handed[s] = "pbc") <=> PbcEnabled

\* C21 (amended): a solver is handed a periodic-boundary context only if the
\* condition holds, and then it is the linear or the closed-form solver and
\* the context is the one set_pbc_dd returned; when the condition does not
\* hold every solver that takes a boundary argument is handed nullptr; the
\* pairwise solver is never handed a boundary context.
PbcHandedOnlyIfEnabled ==
    /\ \A s \in SolversCalled :
           /\ frame.handed[s] = "pbc" => PbcEnabled
           /\ s \in {"lincs", "settle"} => frame.handed[s] = frame.pbc_null
           /\ s = "shake" => frame.handed[s] = "no_argument"
    /\ ~PbcEnabled => frame.pbc_null = "nullptr"
    /\ frame.pc = "idle" => SolversCalled = {}

\* A call under periodic boundaries and domain decomposition with constraint
\* communication in which both the linear and the closed-form solver were
\* handed the context.
PbcHandedUnderDD ==
    /\ Returned
    /\ cr.dd /\ cr.constraint_comm /\ ir.ePBC = epbcXYZ
    /\ frame.handed.lincs = "pbc"
    /\ frame.handed.settle = "pbc"

\* C22: pull_constraint and do_edsam are invoked only as the last steps of a
\* constrain call, after the solvers, the reduction and any dump, and only
\* for econqCoord: pull_constraint iff a constraint pull is configured,
\* do_edsam iff essential-dynamics data is attached and delta_step > 0; for
\* every other quantity neither is invoked.
Corrections ==
    Append2(Append2(<<>>,
                    frame.econq = econqCoord /\ ir.pull = "constraint",
                    "pull_constraint"),
            frame.econq = econqCoord /\ constr.ed /\ frame'.delta_step > 0,
            "do_edsam")
CorrectionsStep ==
    (frame.pc = "after" /\ frame'.pc = "done") =>
        frame'.trace = frame.trace \o Corrections
CorrectionsLast ==
    /\ frame.pc # "done" =>
           ~InTrace("pull_constraint") /\ ~InTrace("do_edsam")
    /\ frame.econq # econqCoord =>
           ~InTrace("pull_constraint") /\ ~InTrace("do_edsam")
CorrectionsOnlyForCoordinates ==
    [][CorrectionsStep]_vars /\ []CorrectionsLast

\* C22 witness: a Coordinates call ran the linear solver and then applied
\* both corrections, in a run where a call with delta_step <= 0 is possible.
BothCorrectionsApplied ==
    /\ Returned
    /\ frame.delta_step > 0
    /\ Len(frame.trace) >= 3
    /\ frame.trace[1] = "lincs"
    /\ frame.trace[Len(frame.trace) - 1] = "pull_constraint"
    /\ frame.trace[Len(frame.trace)] = "do_edsam"

\* C23 helpers: what one step of a call does to the failure state.
Unlimited == constr.maxwarn = INT_MAX
IterativeFailedNow ==
    \/ frame.pc = "lincs" /\ frame'.lincs_ret = "failed"
    \/ frame.pc = "shake" /\ frame'.shake_ret = "failed"
DumpFlaggedNow == frame'.bDump /\ ~frame.bDump
LoggedNow == frame'.log # frame.log
IterativeFailureStep ==
    frame.pc \in {"lincs", "shake"} =>
        /\ (DumpFlaggedNow \/ LoggedNow) => (IterativeFailedNow /\ ~Unlimited)
        /\ (IterativeFailedNow /\ ~Unlimited /\ fatal' = "none") =>
               (frame'.bDump /\ (opts.fplog => LoggedNow))
ClosedFormPath == frame.pc \in {"settle", "region", "reduce"}
ClosedFormFailedNow ==
    frame.pc = "reduce" /\ frame.econq = econqCoord /\ WorkerFailed
ClosedFormCounted ==
    constr'.warncount_settle = constr.warncount_settle + 1
OtherQuantityStep ==
    (ClosedFormPath /\ frame.econq # econqCoord) =>
        /\ constr'.warncount_settle = constr.warncount_settle
        /\ frame'.bDump = frame.bDump
        /\ frame'.bOK = frame.bOK

\* C23 (as claimed): a linear or pairwise failure flags a dump and logs only
\* under a threshold that is not unlimited; a closed-form failure in an
\* econqCoord call always increments warncount_settle, flags a dump and sets
\* the returned flag to failure, also under an unlimited threshold; for every
\* other quantity the closed-form path changes neither the counter, nor the
\* dump flag, nor the returned flag.
ClosedFormAlwaysFlagsStep ==
    ClosedFormFailedNow =>
        ClosedFormCounted /\ fatal' = "none" /\ frame'.bDump /\ ~frame'.bOK
FailureHandlingAsClaimed ==
    [][IterativeFailureStep /\ ClosedFormAlwaysFlagsStep /\ OtherQuantityStep]_vars

\* C23 (amended): as claimed, except that the closed-form failure that takes
\* warncount_settle over the threshold ends the run in the fatal error
\* instead of flagging a dump and returning failure; under an unlimited
\* threshold this never happens.
ClosedFormFlagsOrFatalStep ==
    ClosedFormFailedNow =>
        /\ ClosedFormCounted
        /\ IF constr'.warncount_settle > constr.maxwarn
           THEN fatal' = "too_many_settle" /\ frame'.bDump = frame.bDump
           ELSE fatal' = "none" /\ frame'.bDump /\ ~frame'.bOK
        /\ Unlimited => fatal' = "none"
FailureHandlingByFamily ==
    [][IterativeFailureStep /\ ClosedFormFlagsOrFatalStep /\ OtherQuantityStep]_vars

\* C23 witness: under an unlimited threshold a call for econqCoord returned
\* failure after a linear failure that logged nothing and a closed-form
\* failure that was counted and dumped.
UnlimitedClosedFormFailure ==
    /\ Returned
    /\ Unlimited
    /\ frame.econq = econqCoord
    /\ frame.lincs_ret = "failed"
    /\ ~Logged("fplog: Constraint error in algorithm LINCS")
    /\ WorkerFailed
    /\ constr.warncount_settle > 0
    /\ InTrace("dump_confs")
    /\ ~frame.bOK

====
